---- MODULE Spec2Model ----
(***************************************************************************)
(* A model of the taxi destination-prediction repository:                  *)
(*   - config/joint_simple_mlp_tgtcls_111_cswdtx_bigger.py, the module     *)
(*     whose top-level statements compute the hyperparameters;             *)
(*   - model/rnn.py, class Model (layer dimensions, the recurrent scan     *)
(*     predict_all, predict, cost) and class Stream (train/valid/test      *)
(*     pipelines).                                                         *)
(* Floating-point tensors are modelled by integer tensors: a matrix is a   *)
(* sequence of rows, a row a sequence of integers.                         *)
(***************************************************************************)
EXTENDS Integers, Sequences, FiniteSets, TLC

(***************************************************************************)
(* Generic helpers on sequences.                                           *)
(***************************************************************************)
RECURSIVE SumSeq(_)
SumSeq(s) == IF s = <<>> THEN 0 ELSE Head(s) + SumSeq(Tail(s))

Range(s) == { s[k] : k \in 1..Len(s) }

(***************************************************************************)
(* State.                                                                  *)
(***************************************************************************)
\* The config module: the statement reached (cpc), its names, and the two
\* sizes it reads from the data module
VARIABLES cpc, i, n_begin_end_pts, n_end_pts, n_valid, dest_tgtcls_shape,
          time_tgtcls, dim_embeddings, dim_input, dim_output_dest,
          dim_output_time, data_origin_call_size, data_stands_size

cvars == <<cpc, i, n_begin_end_pts, n_end_pts, n_valid, dest_tgtcls_shape,
           time_tgtcls, dim_embeddings, dim_input, dim_output_dest,
           dim_output_time, data_origin_call_size, data_stands_size>>

\* A Model object: the config it was given and what __init__ builds
VARIABLES config, mpc, input_to_rec, rec, rec_to_output, sequences, context,
          inputs, initial_state_, initial_cells

layers == <<config, input_to_rec, rec, rec_to_output, sequences, context,
            inputs, initial_state_, initial_cells>>

\* One application of predict or cost: its arguments, the scan's position,
\* the recurrent states, the outputs collected so far and the results
VARIABLES app, kwargs, latitude, longitude, latitude_mask, t, states, cells,
          res, destination, cost

call == <<app, kwargs, latitude, longitude, latitude_mask, t, states, cells,
          res, destination, cost>>

mvars == <<mpc, layers, call>>

\* A Stream object's pipeline: which method built it and for which req_vars,
\* the stage that raised if one did (fail), the sources of each stage, the
\* dataset being read with the order the scheme visits it, how far it has
\* been read (pos), balanced_batch's unpacked examples not yet batched
\* (buffer), the examples handed to the batching stage so far (passed) and
\* the batches emitted so far
VARIABLES spc, which, req_vars, first_sources, padded_sources, stream_sources,
          fail, dataset, valid_trips_ids, order, pos, buffer, passed, batches

svars == <<spc, which, req_vars, first_sources, padded_sources, stream_sources,
           fail, dataset, valid_trips_ids, order, pos, buffer, passed, batches>>

vars == <<cvars, mvars, svars>>

(***************************************************************************)
(* ----------------------- The config module ---------------------------- *)
(* Values the module reads from outside itself: data.origin_call_size,     *)
(* data.stands_size and the number of rows of the unpickled dest_tgtcls.   *)
(***************************************************************************)
OriginCallSizes == {5, 57105}
StandsSizes == {3, 63}
DestShapes == {1, 7, 3392}

\* range(21) of the generation loop
FibLoopCount == 21

Unset == 0 - 1

\* Before the first statement of the module runs
ConfigStart ==
    /\ cpc = "params"
    /\ i = Unset
    /\ n_begin_end_pts = Unset
    /\ n_end_pts = Unset
    /\ n_valid = Unset
    /\ dest_tgtcls_shape = Unset
    /\ time_tgtcls = <<>>
    /\ dim_embeddings = <<>>
    /\ dim_input = Unset
    /\ dim_output_dest = Unset
    /\ dim_output_time = Unset
    /\ data_origin_call_size \in OriginCallSizes
    /\ data_stands_size \in StandsSizes

\* lines 9-12
SetParams ==
    /\ cpc = "params"
    /\ n_begin_end_pts' = 10
    /\ n_end_pts' = 10
    /\ n_valid' = 1000
    /\ cpc' = "load"
    /\ UNCHANGED <<mvars, svars, i, dest_tgtcls_shape, time_tgtcls, dim_embeddings, dim_input,
                   dim_output_dest, dim_output_time, data_origin_call_size,
                   data_stands_size>>

\* lines 14-15: the pickle is an outside input
LoadClusters ==
    /\ cpc = "load"
    /\ \E n \in DestShapes : dest_tgtcls_shape' = n
    /\ cpc' = "seed"
    /\ UNCHANGED <<mvars, svars, i, n_begin_end_pts, n_end_pts, n_valid, time_tgtcls,
                   dim_embeddings, dim_input, dim_output_dest, dim_output_time,
                   data_origin_call_size, data_stands_size>>

\* line 18
SeedTimes ==
    /\ cpc = "seed"
    /\ time_tgtcls' = <<1, 2>>
    /\ cpc' = "loop"
    /\ UNCHANGED <<mvars, svars, i, n_begin_end_pts, n_end_pts, n_valid, dest_tgtcls_shape,
                   dim_embeddings, dim_input, dim_output_dest, dim_output_time,
                   data_origin_call_size, data_stands_size>>

\* A loop body that doubles the last element
FibNextBad(s) == s[Len(s)] + s[Len(s)]

\* the value appended at line 20: time_tgtcls[-1] + time_tgtcls[-2]
FibNext(s) == s[Len(s)] + s[Len(s) - 1]

\* line 19: the value range(21) binds to i next; i is unbound before the
\* first iteration and keeps its last value once the range is exhausted
NextI == IF i = Unset THEN 0 ELSE i + 1

\* lines 19-20: one iteration of the loop, or leaving it
LoopStep ==
    /\ cpc = "loop"
    /\ NextI < FibLoopCount
    /\ i' = NextI
    /\ time_tgtcls' = Append(time_tgtcls, FibNext(time_tgtcls))
    /\ UNCHANGED <<mvars, svars, cpc, n_begin_end_pts, n_end_pts, n_valid, dest_tgtcls_shape,
                   dim_embeddings, dim_input, dim_output_dest, dim_output_time,
                   data_origin_call_size, data_stands_size>>

LoopExit ==
    /\ cpc = "loop"
    /\ NextI >= FibLoopCount
    /\ cpc' = "embeddings"
    /\ UNCHANGED <<mvars, svars, i, n_begin_end_pts, n_end_pts, n_valid, dest_tgtcls_shape,
                   time_tgtcls, dim_embeddings, dim_input, dim_output_dest,
                   dim_output_time, data_origin_call_size, data_stands_size>>

\* lines 22-30: (name, table size, embedding width)
DimEmbeddings(origin_call_size, stands_size) ==
    << <<"origin_call", origin_call_size + 1, 15>>,
       <<"origin_stand", stands_size + 1, 10>>,
       <<"week_of_year", 52, 10>>,
       <<"day_of_week", 7, 10>>,
       <<"qhour_of_day", 24 * 4, 10>>,
       <<"day_type", 3, 10>>,
       <<"taxi_id", 448, 10>> >>

SetEmbeddings ==
    /\ cpc = "embeddings"
    /\ dim_embeddings' = DimEmbeddings(data_origin_call_size, data_stands_size)
    /\ cpc' = "dim_input"
    /\ UNCHANGED <<mvars, svars, i, n_begin_end_pts, n_end_pts, n_valid, dest_tgtcls_shape,
                   time_tgtcls, dim_input, dim_output_dest, dim_output_time,
                   data_origin_call_size, data_stands_size>>

\* A dim_input that counts n_end_pts for the end points
DimInputBad(nbe, emb) ==
    nbe * 2 + n_end_pts * 2 + SumSeq([k \in 1..Len(emb) |-> emb[k][3]])

\* line 33
DimInput(nbe, emb) ==
    nbe * 2 * 2 + SumSeq([k \in 1..Len(emb) |-> emb[k][3]])

SetDimInput ==
    /\ cpc = "dim_input"
    /\ dim_input' = DimInput(n_begin_end_pts, dim_embeddings)
    /\ cpc' = "outputs"
    /\ UNCHANGED <<mvars, svars, i, n_begin_end_pts, n_end_pts, n_valid, dest_tgtcls_shape,
                   time_tgtcls, dim_embeddings, dim_output_dest, dim_output_time,
                   data_origin_call_size, data_stands_size>>

\* lines 38 and 42
SetOutputs ==
    /\ cpc = "outputs"
    /\ dim_output_dest' = dest_tgtcls_shape
    /\ dim_output_time' = Len(time_tgtcls)
    /\ cpc' = "done"
    /\ UNCHANGED <<mvars, svars, i, n_begin_end_pts, n_end_pts, n_valid, dest_tgtcls_shape,
                   time_tgtcls, dim_embeddings, dim_input,
                   data_origin_call_size, data_stands_size>>

ConfigIdle ==
    /\ cpc = "idle"
    /\ i = Unset
    /\ n_begin_end_pts = Unset
    /\ n_end_pts = Unset
    /\ n_valid = Unset
    /\ dest_tgtcls_shape = Unset
    /\ time_tgtcls = <<>>
    /\ dim_embeddings = <<>>
    /\ dim_input = Unset
    /\ dim_output_dest = Unset
    /\ dim_output_time = Unset
    /\ data_origin_call_size = Unset
    /\ data_stands_size = Unset

(***************************************************************************)
(* ----------------------- model/rnn.py: Model --------------------------- *)
(* A config object is what Model.__init__ reads: hidden_state_dim and the  *)
(* dim_embeddings of the pre and post embedders, (name, size, width).      *)
(***************************************************************************)
HiddenDims == {1, 2}
\* (pre_embedder.dim_embeddings, post_embedder.dim_embeddings)
Embedders ==
    { << <<>>, <<>> >>,
      << << <<"origin_call", 3, 2>>, <<"taxi_id", 2, 1>> >>,
         << <<"day_type", 3, 1>> >> >> }
BatchParams == { <<1, 2>>, <<2, 1>>, <<2, 2>> }

Configs(hs, es, bs) ==
    { [hidden_state_dim |-> h, pre_embedder |-> e[1], post_embedder |-> e[2],
       batch_size |-> b[1], batch_sort_size |-> b[2]] :
        h \in hs, e \in es, b \in bs }

\* longest padded sequence of a batch handed to predict / cost
MaxT == 3
BatchSizes == {1, 2}
\* (latitude, longitude) of a GPS point: points a whole number of standard
\* deviations from the mean, so that lines 64-65 divide exactly
Points == << <<0, 1>>, <<4, 4>> >>
\* The trajectories of length T drawn for an example: constant at either
\* point, or alternating from either point
Trajectories(T) ==
    { [k \in 1..T |-> Points[((a + c * k) % 2) + 1]] : a \in 0..1, c \in 0..1 }
\* The destinations drawn for a batch of B examples
Destinations(B) == { [b \in 1..B |-> Points[((a + b) % 2) + 1]] : a \in 0..1 }

\* data.train_gps_mean, data.train_gps_std on the integer grid
TrainGpsMean == <<2, 1>>
TrainGpsStd == <<2, 3>>

Zeros(n) == [k \in 1..n |-> 0]

\* a / b of lines 64-65, on operands whose quotient is on the integer grid;
\* it has no value on other operands
TrueDiv(a, b) ==
    CHOOSE q \in (IF a < 0 THEN a ELSE 0 - a)..(IF a < 0 THEN 0 - a ELSE a) :
        q * b = a

\* numpy's .T of a non-empty matrix
Transpose(m) == [c \in 1..Len(m[1]) |-> [r \in 1..Len(m) |-> m[r][c]]]

RECURSIVE Flatten(_)
Flatten(ss) == IF ss = <<>> THEN <<>> ELSE Head(ss) \o Flatten(Tail(ss))

Widths(emb) == SumSeq([k \in 1..Len(emb) |-> emb[k][3]])

\* ContextEmbedder.inputs: the names of its dim_embeddings
EmbedderInputs(emb) == [k \in 1..Len(emb) |-> emb[k][1]]

\* ContextEmbedder.apply for one example: one looked-up row per embedding,
\* of that embedding's width
EmbedRow(emb, kw, b) ==
    [k \in 1..Len(emb) |->
        [j \in 1..emb[k][3] |-> ((kw[emb[k][1]][b] + j + k) % 3) - 1]]

\* Tanh and the logistic gate on the integer grid
Tanh(v) == IF v > 2 THEN 2 ELSE IF v < -2 THEN -2 ELSE v
Sigmoid(v) == IF v > 0 THEN 1 ELSE 0

Weight(seed, a, b) == ((seed + a + 2 * b) % 3) - 1

\* MLP(activations=[Tanh()], dims=[n_in, n_out]).apply on one row
MLPApply(dims, seed, x) ==
    [j \in 1..dims[2] |->
        Tanh(SumSeq([a \in 1..Len(x) |-> Weight(seed, a, j) * x[a]]) + seed)]

\* A repeat that makes one copy too few
RepeatBad(x, n) == [k \in 1..((n - 1) * Len(x)) |-> x[((k - 1) \div (n - 1)) + 1]]

\* x.repeat(n, axis=1) on one row, line 71
Repeat(x, n) == [k \in 1..(n * Len(x)) |-> x[((k - 1) \div n) + 1]]

\* LSTM.apply(iterate=False) on one row: gates from the four slices of the
\* input, then the mask keeps the old states and cells where it is 0
LSTMApply(dim, xs, st, ce, mask) ==
    LET act == [k \in 1..(4 * dim) |->
                  xs[k] + SumSeq([a \in 1..dim |-> Weight(1, a, k) * st[a]])]
        nc == [j \in 1..dim |->
                 Sigmoid(act[dim + j] + ce[j]) * ce[j]
                   + Sigmoid(act[j] + ce[j]) * Tanh(act[2 * dim + j])]
        ns == [j \in 1..dim |-> Sigmoid(act[3 * dim + j] + nc[j]) * Tanh(nc[j])]
    IN  [states |-> [j \in 1..dim |-> mask * ns[j] + (1 - mask) * st[j]],
         cells |-> [j \in 1..dim |-> mask * nc[j] + (1 - mask) * ce[j]]]

\* The dims of the layers Model.__init__ builds, lines 28-29 and 36-37
InputToRecDims(cfg) == <<2 + Widths(cfg.pre_embedder), cfg.hidden_state_dim>>

RecToOutputDims(cfg) == <<cfg.hidden_state_dim + Widths(cfg.post_embedder), 2>>

Sequences == <<"latitude", "latitude_mask", "longitude">>

NoCost == [nan |-> FALSE, sum |-> 0, count |-> 0]

ModelIdle ==
    /\ mpc = "new"
    /\ input_to_rec = <<>>
    /\ rec = 0
    /\ rec_to_output = <<>>
    /\ sequences = <<>>
    /\ context = <<>>
    /\ inputs = <<>>
    /\ initial_state_ = <<>>
    /\ initial_cells = <<>>
    /\ app = "none"
    /\ kwargs = <<>>
    /\ latitude = <<>>
    /\ longitude = <<>>
    /\ latitude_mask = <<>>
    /\ t = 0
    /\ states = <<>>
    /\ cells = <<>>
    /\ res = <<>>
    /\ destination = <<>>
    /\ cost = NoCost

\* Model.__init__, lines 21-47
Construct ==
    /\ mpc = "new"
    /\ input_to_rec' = InputToRecDims(config)
    /\ rec' = config.hidden_state_dim
    /\ rec_to_output' = RecToOutputDims(config)
    /\ sequences' = Sequences
    /\ context' = EmbedderInputs(config.pre_embedder)
                    \o EmbedderInputs(config.post_embedder)
    /\ inputs' = sequences' \o context'
    /\ initial_state_' = Zeros(config.hidden_state_dim)
    /\ initial_cells' = Zeros(config.hidden_state_dim)
    /\ mpc' = "ready"
    /\ UNCHANGED <<cvars, svars, config, call>>

\* One time step of predict_all (lines 63-78) for example b of the batch:
\* lat, lon and mask are that example's entries at this step, st and ce its
\* recurrent states and cells.  ok is FALSE when a layer is handed a row of
\* the wrong width.
PredictAllRow(cfg, lat, lon, mask, kw, b, st, ce) ==
    LET nlat == TrueDiv(lat - TrainGpsMean[1], TrainGpsStd[1])
        nlon == TrueDiv(lon - TrainGpsMean[2], TrainGpsStd[2])
        x == Flatten(EmbedRow(cfg.pre_embedder, kw, b)) \o <<nlat, nlon>>
        itr == Repeat(MLPApply(input_to_rec, 1, x), 4)
        nxt == LSTMApply(rec, itr, st, ce, mask)
        y == Flatten(EmbedRow(cfg.post_embedder, kw, b)) \o nxt.states
        rto == MLPApply(rec_to_output, 2, y)
        bad == [ok |-> FALSE, destination |-> <<>>, states |-> st, cells |-> ce]
    IN  IF Len(x) # input_to_rec[1] THEN bad
        ELSE IF Len(itr) # 4 * rec \/ Len(st) # rec \/ Len(ce) # rec THEN bad
        ELSE IF Len(y) # rec_to_output[1] THEN bad
        ELSE IF Len(rto) # Len(TrainGpsStd) THEN bad
        ELSE [ok |-> TRUE,
              destination |->
                  [k \in 1..2 |-> rto[k] * TrainGpsStd[k] + TrainGpsMean[k]],
              states |-> nxt.states,
              cells |-> nxt.cells]

\* The keyword arguments of a call: one vector per context input, and for
\* cost the two destination vectors
ContextArgs(names, B) ==
    [n \in Range(names) |-> [b \in 1..B |-> b % 2]]

CostArgs(names, B, dest) ==
    [n \in Range(names) \cup {"destination_latitude", "destination_longitude"} |->
        IF n = "destination_latitude" THEN [b \in 1..B |-> dest[b][1]]
        ELSE IF n = "destination_longitude" THEN [b \in 1..B |-> dest[b][2]]
        ELSE [b \in 1..B |-> b % 2]]

\* A right-padded mask row: len ones, then zeros
MaskRow(len, T) == [k \in 1..T |-> IF k <= len THEN 1 ELSE 0]

\* predict (lines 85-89) and cost (lines 97-102) up to the start of the
\* scan: the arguments are batch-major matrices, the scan runs over their
\* transposes, from the LSTM's zero initial states
StartScan(a, B, T, pts, lens, kw) ==
    /\ app' = a
    /\ latitude' = [b \in 1..B |-> [k \in 1..T |-> pts[b][k][1]]]
    /\ longitude' = [b \in 1..B |-> [k \in 1..T |-> pts[b][k][2]]]
    /\ latitude_mask' = [b \in 1..B |-> MaskRow(lens[b], T)]
    /\ kwargs' = kw
    /\ t' = 0
    /\ states' = [b \in 1..B |-> Zeros(rec)]
    /\ cells' = [b \in 1..B |-> Zeros(rec)]
    /\ res' = <<>>
    /\ mpc' = "scan"
    /\ UNCHANGED <<cvars, svars, layers, destination, cost>>

CallPredict ==
    /\ mpc = "ready"
    /\ spc = "idle"
    /\ \E B \in BatchSizes, T \in 1..MaxT :
       \E pts \in [1..B -> Trajectories(T)], lens \in [1..B -> 0..T] :
          StartScan("predict", B, T, pts, lens, ContextArgs(context, B))

CallCost ==
    /\ mpc = "ready"
    /\ spc = "idle"
    /\ \E B \in BatchSizes, T \in 1..MaxT :
       \E pts \in [1..B -> Trajectories(T)], lens \in [1..B -> 0..T],
          dest \in Destinations(B) :
          StartScan("cost", B, T, pts, lens, CostArgs(context, B, dest))

\* One iteration of the recurrent scan over the time axis
ScanStep ==
    /\ mpc = "scan"
    /\ t < Len(Transpose(latitude))
    /\ LET lat == Transpose(latitude)[t + 1]
           lon == Transpose(longitude)[t + 1]
           mask == Transpose(latitude_mask)[t + 1]
           rows == [b \in 1..Len(lat) |->
                      PredictAllRow(config, lat[b], lon[b], mask[b], kwargs, b,
                                    states[b], cells[b])]
       IN  IF \A b \in 1..Len(lat) : rows[b].ok
           THEN /\ res' = Append(res, [b \in 1..Len(lat) |-> rows[b].destination])
                /\ states' = [b \in 1..Len(lat) |-> rows[b].states]
                /\ cells' = [b \in 1..Len(lat) |-> rows[b].cells]
                /\ t' = t + 1
                /\ mpc' = "scan"
           ELSE /\ mpc' = "shape_error"
                /\ UNCHANGED <<cvars, svars, res, states, cells, t>>
    /\ UNCHANGED <<cvars, svars, layers, app, kwargs, latitude, longitude, latitude_mask,
                   destination, cost>>

\* A predict that returns the first output of the scan
PredictResultBad(r) == r[1]

\* line 90: res[-1]
PredictResult(r) == r[Len(r)]

PredictReturn ==
    /\ mpc = "scan"
    /\ app = "predict"
    /\ t = Len(Transpose(latitude))
    /\ destination' = PredictResult(res)
    /\ mpc' = "done"
    /\ UNCHANGED <<cvars, svars, layers, app, kwargs, latitude, longitude, latitude_mask, t,
                   states, cells, res, cost>>

\* error.erdist on the integer grid
Abs(v) == IF v < 0 THEN -v ELSE v
Erdist(a, b) == Abs(a[1] - b[1]) + Abs(a[2] - b[2])

\* A cost that leaves out the multiplication by the mask
CostValueBad(lat, mask, r, kw) ==
    LET target == [k \in 1..Len(lat) |->
                     [b \in 1..Len(kw["destination_latitude"]) |->
                        <<kw["destination_latitude"][b],
                          kw["destination_longitude"][b]>>]]
        tflat == Flatten(target)
        rflat == Flatten(r)
        ce == [k \in 1..Len(tflat) |-> Erdist(tflat[k], rflat[k])]
        total == SumSeq(Flatten(mask))
    IN  IF total = 0 THEN [nan |-> TRUE, sum |-> SumSeq(ce), count |-> 0]
        ELSE [nan |-> FALSE, sum |-> SumSeq(ce), count |-> total]

\* lines 103-110; lat, mask are the transposed arguments of lines 98 and 100
CostValue(lat, mask, r, kw) ==
    LET target == [k \in 1..Len(lat) |->
                     [b \in 1..Len(kw["destination_latitude"]) |->
                        <<kw["destination_latitude"][b],
                          kw["destination_longitude"][b]>>]]
        tflat == Flatten(target)
        rflat == Flatten(r)
        ce == [k \in 1..Len(tflat) |-> Erdist(tflat[k], rflat[k])]
        mflat == Flatten(mask)
        masked == [k \in 1..Len(ce) |-> ce[k] * mflat[k]]
        total == SumSeq(mflat)
    IN  IF total = 0 THEN [nan |-> TRUE, sum |-> SumSeq(masked), count |-> 0]
        ELSE [nan |-> FALSE, sum |-> SumSeq(masked), count |-> total]

CostReturn ==
    /\ mpc = "scan"
    /\ app = "cost"
    /\ t = Len(Transpose(latitude))
    /\ cost' = CostValue(Transpose(latitude), Transpose(latitude_mask), res, kwargs)
    /\ mpc' = "done"
    /\ UNCHANGED <<cvars, svars, layers, app, kwargs, latitude, longitude, latitude_mask, t,
                   states, cells, res, destination>>

(***************************************************************************)
(* ----------------------- model/rnn.py: Stream -------------------------- *)
(* Source names.  The names a dataset provides are those of Stream.inputs  *)
(* that no transformer adds, and trip_id.                                  *)
(***************************************************************************)
DatasetSources ==
    <<"trip_id", "call_type", "origin_call", "origin_stand", "taxi_id",
      "timestamp", "day_type", "missing_data", "latitude", "longitude">>

\* transformers.taxi_add_datetime and transformers.add_destination add
\* sources; the filters and taxi_remove_test_only_clients add none
AddDatetime(src) == src \o <<"week_of_year", "day_of_week", "qhour_of_day">>
AddDestination(src) == src \o <<"destination_latitude", "destination_longitude">>

\* v.endswith('_mask'), over the names of the model
MaskNames == {"latitude_mask", "longitude_mask", "origin_call_mask"}
EndsWithMask(v) == v \in MaskNames

\* source + '_mask'
MaskOf(v) ==
    CASE v = "latitude" -> "latitude_mask"
      [] v = "longitude" -> "longitude_mask"
      [] OTHER -> "origin_call_mask"

NotMask(v) == ~EndsWithMask(v)

\* tuple(v for v in req_vars if not v.endswith('_mask'))
WithoutMasks(rv) == SelectSeq(rv, NotMask)

\* transformers.Select looks every wanted name up in the stream's sources
SelectOk(src, wanted) == Range(wanted) \subseteq Range(src)

\* Padding.sources: each source, followed by its mask if it is a mask source
PaddingSources(src, mask_sources) ==
    Flatten([k \in 1..Len(src) |->
               IF src[k] \in mask_sources THEN <<src[k], MaskOf(src[k])>>
               ELSE <<src[k]>>])

Failed(stage, first, padded) ==
    [fail |-> stage, first |-> first, padded |-> padded, sources |-> <<>>]

\* A Padding that masks latitude only
SelectPadSelectBad(up, rv, key) ==
    LET first == WithoutMasks(rv)
        padded == PaddingSources(first, {"latitude"})
    IN  IF ~SelectOk(up, first) THEN Failed("first_select", <<>>, <<>>)
        ELSE IF key # "" /\ key \notin Range(first)
        THEN Failed("balanced_batch", first, <<>>)
        ELSE IF ~SelectOk(padded, rv) THEN Failed("final_select", first, padded)
        ELSE [fail |-> "none", first |-> first, padded |-> padded, sources |-> rv]

\* The two Selects around batching and Padding that end each method
\* (lines 131-135, 142-146, 153-157); key is balanced_batch's sort key, or
\* "" where the method batches with Batch
SelectPadSelect(up, rv, key) ==
    LET first == WithoutMasks(rv)
        padded == PaddingSources(first, {"latitude", "longitude"})
    IN  IF ~SelectOk(up, first) THEN Failed("first_select", <<>>, <<>>)
        ELSE IF key # "" /\ key \notin Range(first)
        THEN Failed("balanced_batch", first, <<>>)
        ELSE IF ~SelectOk(padded, rv) THEN Failed("final_select", first, padded)
        ELSE [fail |-> "none", first |-> first, padded |-> padded, sources |-> rv]

\* Stream.train, lines 125-136
TrainPipeline(rv) ==
    SelectPadSelect(AddDestination(AddDatetime(DatasetSources)), rv, "latitude")

\* Stream.valid, lines 139-147
ValidPipeline(rv) ==
    SelectPadSelect(AddDestination(AddDatetime(DatasetSources)), rv, "")

\* A test pipeline that adds the destination as train and valid do
TestPipelineBad(rv) ==
    SelectPadSelect(AddDestination(AddDatetime(DatasetSources)), rv, "")

\* Stream.test, lines 150-158
TestPipeline(rv) == SelectPadSelect(AddDatetime(DatasetSources), rv, "")

\* predict.inputs and cost.inputs, lines 92-94 and 112-114
PredictInputs(inp) == inp

CostInputs(inp) == inp \o <<"destination_latitude", "destination_longitude">>

\* The req_vars a caller may ask a stream for: the inputs of predict, those
\* of cost, and lists that leave out a base source, name another mask or
\* name a source no dataset has
ReqVarsChoices(inp) ==
    { PredictInputs(inp), CostInputs(inp),
      <<"latitude", "longitude">>,
      <<"longitude", "longitude_mask">>,
      <<"latitude", "latitude_mask", "longitude", "longitude_mask">>,
      <<"latitude_mask", "longitude">>,
      <<"latitude", "origin_call", "origin_call_mask">>,
      <<"latitude", "travel_time">> }

(***************************************************************************)
(* Examples and datasets.  An example is its trip id and its trajectory;   *)
(* the other fields pass through the pipeline untouched.                   *)
(***************************************************************************)
MaxTrain == 3
MaxTest == 3
\* the largest valid set holds this many full batches and one example more
MaxValidBatches == 2
TrajLens == {0, 1, 2}
ValidIdChoices == { {}, {2, 9} }

\* Batch(stream, iteration_scheme=ConstantScheme(1000)), line 144
ValidBatchSize == 1000
\* A test batch that holds two examples
TestBatchSizeBad == 1 + 1

\* Batch(stream, iteration_scheme=ConstantScheme(1)), line 155
TestBatchSize == 1

Example(id, len) ==
    [trip_id |-> id,
     latitude |-> [k \in 1..len |-> 10 * id + k],
     longitude |-> [k \in 1..len |-> 0 - (10 * id + k)]]

SmallDatasets(n) ==
    UNION { { [j \in 1..m |-> Example(j, lens[j])] : lens \in [1..m -> TrajLens] } :
            m \in 0..n }

ValidSizes ==
    { 0, ValidBatchSize - 1, ValidBatchSize, ValidBatchSize + 1,
      MaxValidBatches * ValidBatchSize + 1 }

ValidDatasets == { [j \in 1..n |-> Example(j, j % 3)] : n \in ValidSizes }

Orders(n) ==
    { f \in [1..n -> 1..n] : \A a, b \in 1..n : a # b => f[a] # f[b] }

\* TaxiExcludeTrips and TaxiExcludeEmptyTrips let an example through
NotExcluded(ex, ids) == ex.trip_id \notin ids
NotEmpty(ex) == Len(ex.latitude) > 0

\* A train pipeline without TaxiExcludeEmptyTrips
TrainKeepBad(ex, ids) == NotExcluded(ex, ids)

\* The two filters of Stream.train, lines 127-128
TrainKeep(ex, ids) == NotExcluded(ex, ids) /\ NotEmpty(ex)

\* Batch.get_data over the filtered stream: up to n examples that pass, read
\* in the scheme's order from position p on; the read stops at the n-th one
\* or at the end of the dataset
RECURSIVE PullFiltered(_, _, _, _, _, _)
PullFiltered(data, ord, ids, p, n, acc) ==
    IF n = 0 \/ p >= Len(ord) THEN [items |-> acc, pos |-> p]
    ELSE IF TrainKeep(data[ord[p + 1]], ids)
    THEN PullFiltered(data, ord, ids, p + 1, n - 1, Append(acc, data[ord[p + 1]]))
    ELSE PullFiltered(data, ord, ids, p + 1, n, acc)

\* SortMapping on the key's length: a stable sort
SortByLen(items) ==
    LET rank(k) ==
            Cardinality({ j \in 1..Len(items) :
                \/ Len(items[j].latitude) < Len(items[k].latitude)
                \/ Len(items[j].latitude) = Len(items[k].latitude) /\ j < k }) + 1
    IN  [r \in 1..Len(items) |-> items[CHOOSE k \in 1..Len(items) : rank(k) = r]]

\* balanced_batch: batches of batch_size * batch_sort_size examples are
\* sorted and unpacked, and batches of batch_size are cut from the result.
\* One batch is pulled: buf holds the unpacked examples not yet used.
RECURSIVE BalancedPull(_, _, _, _, _, _, _, _)
BalancedPull(data, ord, ids, cfg, buf, p, need, got) ==
    IF need = 0 THEN [batch |-> got.batch, buffer |-> buf, pos |-> p, pulled |-> got.pulled]
    ELSE IF buf # <<>>
    THEN BalancedPull(data, ord, ids, cfg, Tail(buf), p, need - 1,
                      [got EXCEPT !.batch = Append(@, Head(buf))])
    ELSE LET big == PullFiltered(data, ord, ids, p,
                                 cfg.batch_size * cfg.batch_sort_size, <<>>)
         IN  IF big.items = <<>>
             THEN [batch |-> got.batch, buffer |-> <<>>, pos |-> big.pos,
                   pulled |-> got.pulled]
             ELSE BalancedPull(data, ord, ids, cfg, SortByLen(big.items), big.pos,
                               need, [got EXCEPT !.pulled = @ \o big.items])

\* Batch.get_data with ConstantScheme(n) over an unfiltered stream
BatchPull(data, ord, p, n) ==
    LET last == IF p + n <= Len(ord) THEN p + n ELSE Len(ord)
    IN  [batch |-> [k \in 1..(last - p) |-> data[ord[p + k]]], pos |-> last]

\* The longest sequence of source n in a batch
MaxLen(items, n) ==
    IF items = <<>> THEN 0
    ELSE LET lens == { Len(items[k][n]) : k \in 1..Len(items) }
         IN  CHOOSE m \in lens : \A l \in lens : l <= m

PadTo(row, n) == [k \in 1..n |-> IF k <= Len(row) THEN row[k] ELSE 0]
PadMask(row, n) == [k \in 1..n |-> IF k <= Len(row) THEN 1 ELSE 0]

\* Padding(stream, mask_sources=['latitude', 'longitude']) followed by the
\* final Select: the batch as the returned stream emits it.  Each mask
\* source is padded with zeros to its longest sequence in the batch, and its
\* mask holds 1 where the sequence has a value.
Emit(items, src) ==
    LET mlat == MaxLen(items, "latitude")
        mlon == MaxLen(items, "longitude")
        lat == [k \in 1..Len(items) |-> PadTo(items[k].latitude, mlat)]
        lon == [k \in 1..Len(items) |-> PadTo(items[k].longitude, mlon)]
        latmask == [k \in 1..Len(items) |-> PadMask(items[k].latitude, mlat)]
        lonmask == [k \in 1..Len(items) |-> PadMask(items[k].longitude, mlon)]
    IN  [examples |-> items,
         data |-> [n \in Range(src) \cap {"latitude", "latitude_mask", "longitude",
                                          "longitude_mask"} |->
                     CASE n = "latitude" -> lat
                       [] n = "longitude" -> lon
                       [] n = "latitude_mask" -> latmask
                       [] OTHER -> lonmask]]

StreamIdle ==
    /\ spc = "idle"
    /\ which = "none"
    /\ req_vars = <<>>
    /\ first_sources = <<>>
    /\ padded_sources = <<>>
    /\ stream_sources = <<>>
    /\ fail = "none"
    /\ dataset = <<>>
    /\ valid_trips_ids = {}
    /\ order = <<>>
    /\ pos = 0
    /\ buffer = <<>>
    /\ passed = <<>>
    /\ batches = <<>>

\* The body of a Stream method: the pipeline is built for req_vars over the
\* dataset the method opens, or a stage raises
Build(w, rv, built, data, ids) ==
    /\ which' = w
    /\ req_vars' = rv
    /\ first_sources' = built.first
    /\ padded_sources' = built.padded
    /\ stream_sources' = built.sources
    /\ fail' = built.fail
    /\ dataset' = data
    /\ valid_trips_ids' = ids
    /\ spc' = IF built.fail = "none" THEN "built" ELSE "error"
    /\ UNCHANGED <<order, pos, buffer, passed, batches, cvars, mvars>>

Train ==
    /\ spc = "idle"
    /\ mpc = "ready"
    /\ \E rv \in ReqVarsChoices(inputs), data \in SmallDatasets(MaxTrain),
          ids \in ValidIdChoices :
           Build("train", rv, TrainPipeline(rv), data, ids)

Valid ==
    /\ spc = "idle"
    /\ mpc = "ready"
    /\ \E rv \in ReqVarsChoices(inputs), data \in ValidDatasets :
           Build("valid", rv, ValidPipeline(rv), data, {})

Test ==
    /\ spc = "idle"
    /\ mpc = "ready"
    /\ \E rv \in ReqVarsChoices(inputs), data \in SmallDatasets(MaxTest) :
           Build("test", rv, TestPipeline(rv), data, {})

\* get_epoch_iterator: ShuffledExampleScheme visits the training set in any
\* order, TaxiStream visits its set in sequence
OpenEpoch ==
    /\ spc = "built"
    /\ order' \in IF which = "train" THEN Orders(Len(dataset))
                  ELSE { [k \in 1..Len(dataset) |-> k] }
    /\ spc' = "iter"
    /\ UNCHANGED <<which, req_vars, first_sources, padded_sources, stream_sources,
                   fail, dataset, valid_trips_ids, pos, buffer, passed, batches,
                   cvars, mvars>>

\* next() on the stream train returned
TrainNext ==
    /\ spc = "iter"
    /\ which = "train"
    /\ LET r == BalancedPull(dataset, order, valid_trips_ids, config, buffer, pos,
                             config.batch_size, [batch |-> <<>>, pulled |-> <<>>])
       IN  /\ pos' = r.pos
           /\ buffer' = r.buffer
           /\ passed' = passed \o r.pulled
           /\ IF r.batch = <<>>
              THEN spc' = "end" /\ UNCHANGED batches
              ELSE /\ batches' = Append(batches, Emit(r.batch, stream_sources))
                   /\ UNCHANGED spc
    /\ UNCHANGED <<which, req_vars, first_sources, padded_sources, stream_sources,
                   fail, dataset, valid_trips_ids, order, cvars, mvars>>

\* next() on the stream valid or test returned, with that method's batch size
PlainNext(w, n) ==
    /\ spc = "iter"
    /\ which = w
    /\ LET r == BatchPull(dataset, order, pos, n)
       IN  /\ pos' = r.pos
           /\ passed' = passed \o r.batch
           /\ IF r.batch = <<>>
              THEN spc' = "end" /\ UNCHANGED batches
              ELSE /\ batches' = Append(batches, Emit(r.batch, stream_sources))
                   /\ UNCHANGED spc
    /\ UNCHANGED <<which, req_vars, first_sources, padded_sources, stream_sources,
                   fail, dataset, valid_trips_ids, order, buffer, cvars, mvars>>

ValidNext == PlainNext("valid", ValidBatchSize)

TestNext == PlainNext("test", TestBatchSize)


(***************************************************************************)
(* Specifications.                                                         *)
(***************************************************************************)
\* The config module being imported
InitConfig == ConfigStart /\ config = <<>> /\ ModelIdle /\ StreamIdle

NextConfig ==
    \/ SetParams
    \/ LoadClusters
    \/ SeedTimes
    \/ LoopStep
    \/ LoopExit
    \/ SetEmbeddings
    \/ SetDimInput
    \/ SetOutputs

SpecConfig == InitConfig /\ [][NextConfig]_vars

\* A Model being built, then applied to a batch by predict or by cost
InitModel ==
    /\ config \in Configs(HiddenDims, Embedders, {<<2, 1>>})
    /\ ConfigIdle /\ ModelIdle /\ StreamIdle

NextModel ==
    \/ Construct
    \/ CallPredict
    \/ CallCost
    \/ ScanStep
    \/ PredictReturn
    \/ CostReturn

SpecModel == InitModel /\ [][NextModel]_vars

\* A Model being built, then a Stream method called for some req_vars and
\* the returned stream read for one epoch
InitStream ==
    /\ config \in Configs({1}, Embedders, BatchParams)
    /\ ConfigIdle /\ ModelIdle /\ StreamIdle

NextStream ==
    \/ Construct
    \/ Train
    \/ Valid
    \/ Test
    \/ OpenEpoch
    \/ TrainNext
    \/ ValidNext
    \/ TestNext

SpecStream == InitStream /\ [][NextStream]_vars


(***************************************************************************)
(* Properties of the config module (under SpecConfig).                     *)
(***************************************************************************)
AfterLoop == cpc \in {"embeddings", "dim_input", "outputs", "done"}

\* C1: once the generation loop has finished, time_tgtcls starts 1, 2, every
\* later element is the sum of the two before it, the list is strictly
\* increasing and has 23 elements, the last being 46368; dim_output_time,
\* once assigned, is that length.
C1_Fibonacci ==
    AfterLoop =>
        /\ Len(time_tgtcls) = 23
        /\ time_tgtcls[1] = 1
        /\ time_tgtcls[2] = 2
        /\ \A k \in 3..Len(time_tgtcls) :
              time_tgtcls[k] = time_tgtcls[k - 1] + time_tgtcls[k - 2]
        /\ \A k \in 1..(Len(time_tgtcls) - 1) : time_tgtcls[k] < time_tgtcls[k + 1]
        /\ time_tgtcls[23] = 46368
        /\ (cpc = "done" => dim_output_time = 23)

C1_Witness ==
    cpc = "done" /\ i = 20 /\ Len(time_tgtcls) = 23 /\ dim_output_time = 23

\* C5: dim_input is 4 * n_begin_end_pts plus the sum of the widths (third
\* components) of dim_embeddings, which is 40 + 75 = 115 here; the expression
\* gives 4 * n + 75 for any n in place of n_begin_end_pts, so n_end_pts has
\* no part in it.
C5_DimInput ==
    cpc \in {"outputs", "done"} =>
        LET widths == dim_embeddings[1][3] + dim_embeddings[2][3]
                        + dim_embeddings[3][3] + dim_embeddings[4][3]
                        + dim_embeddings[5][3] + dim_embeddings[6][3]
                        + dim_embeddings[7][3]
        IN  /\ Len(dim_embeddings) = 7
            /\ widths = 75
            /\ 4 * n_begin_end_pts = 40
            /\ dim_input = 4 * n_begin_end_pts + widths
            /\ dim_input = 115
            /\ \A n \in 0..20 : DimInput(n, dim_embeddings) = 4 * n + widths

C5_Witness ==
    cpc = "done" /\ dim_input = 115 /\ n_end_pts = 10 /\ data_origin_call_size = 57105

(***************************************************************************)
(* Properties of Model (under SpecModel).                                  *)
(***************************************************************************)
Ones(row) == Cardinality({ k \in 1..Len(row) : row[k] = 1 })

RightPadded(row) == \A k \in 1..Len(row) : row[k] = (IF k <= Ones(row) THEN 1 ELSE 0)

\* predict_all run on example b alone, over its first n points with no
\* padding: the destination it produces at the n-th point
RECURSIVE Unpadded(_, _, _, _, _)
Unpadded(b, k, n, st, ce) ==
    LET r == PredictAllRow(config, latitude[b][k], longitude[b][k], 1, kwargs, b,
                           st, ce)
    IN  IF k = n THEN r.destination ELSE Unpadded(b, k + 1, n, r.states, r.cells)

\* C4: predict returns the destinations of the last time step; for every
\* example whose mask is a non-empty run of 1s followed only by 0s this is
\* the destination predict_all produced at the example's last unmasked
\* point, which is the one computed from the unpadded trajectory alone, so
\* neither the number of padding steps nor the padded values change it; a
\* step whose mask is 0 repeats the destination of the step before.
C4_PredictLastUnmasked ==
    (mpc = "done" /\ app = "predict") =>
        /\ destination = res[Len(latitude[1])]
        /\ \A b \in 1..Len(latitude) :
              LET n == Ones(latitude_mask[b])
              IN  (n >= 1 /\ RightPadded(latitude_mask[b])) =>
                     /\ destination[b] = res[n][b]
                     /\ destination[b] = Unpadded(b, 1, n, Zeros(rec), Zeros(rec))
                     /\ \A k \in (n + 1)..Len(res) : res[k][b] = res[k - 1][b]

C4_Witness ==
    /\ mpc = "done" /\ app = "predict"
    /\ Len(latitude) = 2
    /\ latitude_mask = << <<1, 0, 0>>, <<1, 1, 0>> >>
    /\ latitude[1][2] # latitude[1][1]
    /\ res[1][2] # res[2][2]
    /\ context # <<>>

\* C6: cost is the sum, over the positions whose latitude_mask is 1, of
\* erdist between the example's destination and the destination predicted at
\* that step, divided by the number of such positions; masked positions add
\* nothing whatever was predicted there, and the quotient is defined exactly
\* when some position is unmasked.
C6_MaskedMean ==
    (mpc = "done" /\ app = "cost") =>
        LET B == Len(latitude)
            T == Len(latitude[1])
            err(b, k) == Erdist(<<kwargs["destination_latitude"][b],
                                  kwargs["destination_longitude"][b]>>, res[k][b])
            unmasked == { p \in (1..B) \X (1..T) : latitude_mask[p[1]][p[2]] = 1 }
            total == SumSeq([b \in 1..B |->
                        SumSeq([k \in 1..T |->
                            IF <<b, k>> \in unmasked THEN err(b, k) ELSE 0])])
        IN  /\ cost.count = Cardinality(unmasked)
            /\ cost.sum = total
            /\ cost.nan = (unmasked = {})

C6_Witness ==
    /\ mpc = "done" /\ app = "cost"
    /\ latitude_mask = << <<1, 1, 0>>, <<1, 0, 0>> >>
    /\ cost.count = 3
    /\ cost.sum > 0
    /\ Erdist(<<kwargs["destination_latitude"][2],
                kwargs["destination_longitude"][2]>>, res[3][2]) > 0

\* C7: the layers __init__ builds fit each other for every config:
\* input_to_rec takes 2 + the pre-embedder widths and gives hidden_state_dim,
\* its output repeated 4 times is the 4 * hidden_state_dim the LSTM takes,
\* rec_to_output takes hidden_state_dim + the post-embedder widths and gives
\* 2, the two initial vectors have length hidden_state_dim, and no step of
\* predict_all hands a layer a row of another width.
C7_LayerDims ==
    mpc # "new" =>
        LET h == config.hidden_state_dim
            pre == SumSeq([k \in 1..Len(config.pre_embedder) |->
                             config.pre_embedder[k][3]])
            post == SumSeq([k \in 1..Len(config.post_embedder) |->
                              config.post_embedder[k][3]])
        IN  /\ input_to_rec = <<2 + pre, h>>
            /\ rec = h
            /\ rec_to_output = <<h + post, 2>>
            /\ Len(initial_state_) = h
            /\ Len(initial_cells) = h
            /\ mpc # "shape_error"
            /\ \A b \in 1..Len(states) : Len(states[b]) = h /\ Len(cells[b]) = h
            /\ \A k \in 1..Len(res) : \A b \in 1..Len(res[k]) : Len(res[k][b]) = 2

C7_Witness ==
    /\ mpc = "done"
    /\ config.hidden_state_dim = 2
    /\ config.pre_embedder # <<>>
    /\ config.post_embedder # <<>>
    /\ Len(res) = 3

(***************************************************************************)
(* Properties of Stream (under SpecStream).                                *)
(***************************************************************************)
Called == spc # "idle"

Members(bs) == UNION { Range(bs[k].examples) : k \in 1..Len(bs) }

Passing == { ex \in Range(dataset) :
               ex.trip_id \notin valid_trips_ids /\ Len(ex.latitude) > 0 }

\* C2: in the training stream every example handed to balanced_batch, and so
\* every example of an emitted batch, has a trip id outside the validation
\* set's and a non-empty trajectory, in whatever order the shuffled scheme
\* visits the training set; and when the epoch ends every training example
\* passing both filters has been handed on, and batched, exactly once.
C2_FilterBeforeBatch ==
    which = "train" =>
        /\ \A k \in 1..Len(passed) : passed[k] \in Passing
        /\ \A k, j \in 1..Len(passed) : k # j => passed[k] # passed[j]
        /\ Members(batches) \subseteq Range(passed)
        /\ Members(batches) \cup Range(buffer) = Range(passed)
        /\ spc = "end" =>
              /\ Range(passed) = Passing
              /\ Members(batches) = Passing
              /\ SumSeq([k \in 1..Len(batches) |-> Len(batches[k].examples)])
                    = Cardinality(Passing)

C2_Witness ==
    /\ which = "train" /\ spc = "end"
    /\ Len(dataset) = 3
    /\ order = <<3, 1, 2>>
    /\ valid_trips_ids = {2, 9}
    /\ Len(dataset[1].latitude) = 0
    /\ Len(dataset[2].latitude) = 1
    /\ Len(dataset[3].latitude) = 2
    /\ Len(batches) = 1
    /\ Range(passed) = {dataset[3]}

\* Every '_mask' name of rv is latitude_mask or longitude_mask and comes with
\* its base source
MasksHaveBase(rv) ==
    \A v \in Range(rv) :
        v \in MaskNames =>
            \/ v = "latitude_mask" /\ "latitude" \in Range(rv)
            \/ v = "longitude_mask" /\ "longitude" \in Range(rv)

\* C3: for train, valid and test alike the first Select keeps the names of
\* req_vars that do not end in '_mask', Padding adds masks for latitude and
\* longitude only, a pipeline that reaches the final Select passes it exactly
\* when every '_mask' name of req_vars is latitude_mask or longitude_mask with
\* its base source in req_vars, and the returned stream's sources are req_vars.
C3_SourcesAreReqVars ==
    Called =>
        /\ fail \in {"none", "final_select", "balanced_batch"} =>
              /\ Range(first_sources) = Range(req_vars) \ MaskNames
              /\ first_sources = SelectSeq(req_vars, LAMBDA v : v \notin MaskNames)
        /\ fail \in {"none", "final_select"} =>
              /\ Range(padded_sources) \cap MaskNames
                    = { MaskOf(v) : v \in Range(first_sources) \cap {"latitude", "longitude"} }
              /\ Range(padded_sources) \ MaskNames = Range(first_sources)
              /\ (fail = "none") = MasksHaveBase(req_vars)
        /\ fail = "none" =>
              /\ stream_sources = req_vars
              /\ \A k \in 1..Len(batches) :
                    DOMAIN batches[k].data
                       = Range(req_vars) \cap {"latitude", "latitude_mask",
                                               "longitude", "longitude_mask"}
        /\ fail # "none" => spc = "error" /\ stream_sources = <<>>

C3_Witness ==
    /\ which = "train" /\ spc = "iter" /\ Len(batches) = 1
    /\ req_vars = <<"latitude", "latitude_mask", "longitude", "longitude_mask">>
    /\ stream_sources = req_vars

\* C8: the evaluation streams keep every example once and in dataset order;
\* valid's batches hold exactly 1000 examples except possibly the last, which
\* is non-empty; test's batches hold exactly one example, so every mask test
\* emits holds only 1s.
C8_EvalBatches ==
    which \in {"valid", "test"} =>
        /\ Flatten([k \in 1..Len(batches) |-> batches[k].examples])
              = SubSeq(dataset, 1, pos)
        /\ spc = "end" => pos = Len(dataset)
        /\ which = "valid" =>
              \A k \in 1..Len(batches) :
                 /\ Len(batches[k].examples) \in 1..1000
                 /\ k < Len(batches) => Len(batches[k].examples) = 1000
        /\ which = "test" =>
              \A k \in 1..Len(batches) :
                 /\ Len(batches[k].examples) = 1
                 /\ \A n \in DOMAIN batches[k].data \cap MaskNames :
                       \A e \in 1..Len(batches[k].data[n]) :
                          \A p \in 1..Len(batches[k].data[n][e]) :
                             batches[k].data[n][e][p] = 1

C8_Witness ==
    /\ which = "valid" /\ spc = "end"
    /\ Len(dataset) = 2001
    /\ Len(batches) = 3
    /\ Len(batches[3].examples) = 1
    /\ "latitude_mask" \in DOMAIN batches[1].data

\* C9: cost's inputs are predict's inputs (latitude, latitude_mask, longitude,
\* the pre-embedder's inputs, the post-embedder's) followed by
\* destination_latitude and destination_longitude; asked for as req_vars they
\* are provided by the train and valid streams, which apply add_destination,
\* and not by the test stream, whose first Select finds no destination.
C9_CostInputs ==
    mpc = "ready" =>
        LET names(emb) == [k \in 1..Len(emb) |-> emb[k][1]]
            wanted == <<"latitude", "latitude_mask", "longitude">>
                         \o names(config.pre_embedder) \o names(config.post_embedder)
        IN  /\ PredictInputs(inputs) = wanted
            /\ CostInputs(inputs)
                  = wanted \o <<"destination_latitude", "destination_longitude">>
            /\ (Called /\ req_vars = CostInputs(inputs)) =>
                  /\ which \in {"train", "valid"} =>
                        fail = "none" /\ stream_sources = req_vars
                  /\ which = "test" => fail = "first_select" /\ spc = "error"

C9_Witness ==
    /\ mpc = "ready" /\ which = "test" /\ spc = "error"
    /\ context # <<>>
    /\ req_vars = CostInputs(inputs)
    /\ fail = "first_select"

====
